---- MODULE Spec2Model ----
(***************************************************************************)
(* Machine state of a RISC-V hart as laid out by riscv-processor.h:        *)
(* integer and floating-point register unions with aliased narrow views,   *)
(* the processor aggregate, its two instantiations and the logging flags.  *)
(*                                                                         *)
(* A value of a fixed-width C++ type is modelled by its bit pattern, a     *)
(* sequence of bytes with the least-significant byte first ("word").  The  *)
(* storage of a union is a sequence of bytes in address order; element k   *)
(* is the byte at offset k-1.  The host byte order decides how a word is   *)
(* laid out in storage and which branch of the #if the build compiles.     *)
(* Reading a union member other than the one last written follows the     *)
(* type-punning rule of the supported compilers: the member's bytes are    *)
(* reinterpreted in place.                                                 *)
(***************************************************************************)
EXTENDS Integers, Sequences, FiniteSets, TLC

VARIABLES byte_order, harts, nops, last

vars == <<byte_order, harts, nops, last>>

\* Bound on the number of writes an external executor performs in one run.
MaxOps == 2

-----------------------------------------------------------------------------
(* Words: bit patterns of fixed-width values, least-significant byte first *)

Byte == 0..255

RECURSIVE FromInt(_, _)
\* The n-byte two's complement pattern of the (small) integer i.
FromInt(i, n) == IF n = 0 THEN <<>> ELSE <<i % 256>> \o FromInt(i \div 256, n - 1)

Zero(n) == [k \in 1..n |-> 0]

Ones(n) == [k \in 1..n |-> 255]

Trunc(word, n) == SubSeq(word, 1, n)

High(word, n) == SubSeq(word, n + 1, Len(word))

Negative(word) == word[Len(word)] >= 128

\* Conversion of a word to n bytes: truncation, or sign/zero extension.
Convert(word, signed, n) ==
    IF n <= Len(word) THEN Trunc(word, n)
    ELSE word \o [k \in 1..(n - Len(word)) |->
                     IF signed /\ Negative(word) THEN 255 ELSE 0]

\* The unsigned integer a word of at most 3 bytes denotes.
RECURSIVE ToNat(_)
ToNat(word) == IF word = <<>> THEN 0 ELSE Head(word) + 256 * ToNat(Tail(word))

\* The signed integer a word of at most 4 bytes denotes.
ToInt(word) ==
    LET n == Len(word)
    IN  ToNat(Trunc(word, n - 1))
          + (IF word[n] >= 128 THEN word[n] - 256 ELSE word[n]) * (256 ^ (n - 1))

\* Unsigned comparison of two words of the same length.
RECURSIVE WordLess(_, _)
WordLess(a, b) ==
    IF a = <<>> THEN FALSE
    ELSE LET n == Len(a)
         IN  \/ a[n] < b[n]
             \/ a[n] = b[n] /\ WordLess(Trunc(a, n - 1), Trunc(b, n - 1))

Reverse(s) == [k \in 1..Len(s) |-> s[Len(s) + 1 - k]]

-----------------------------------------------------------------------------
(* Fixed-width types *)

SizeOf(t) ==
    CASE t \in {"s8", "u8"} -> 1
      [] t \in {"s16", "u16"} -> 2
      [] t \in {"s32", "u32", "f32"} -> 4
      [] t \in {"s64", "u64", "f64"} -> 8

IsSigned(t) == t \in {"s8", "s16", "s32", "s64"}

\* x << n on small non-negative integers
Shl(x, n) == x * (2 ^ n)

-----------------------------------------------------------------------------
(* Processor logging flags *)

proc_log_inst == Shl(1, 0)
proc_log_operands == Shl(1, 1)
proc_log_memory == Shl(1, 2)
proc_log_csr_mmode == Shl(1, 3)
proc_log_csr_hmode == Shl(1, 4)
proc_log_csr_smode == Shl(1, 5)
proc_log_csr_umode == Shl(1, 6)
proc_log_int_reg == Shl(1, 7)
proc_log_no_pseudo == Shl(1, 8)

proc_log_flags ==
    {proc_log_inst, proc_log_operands, proc_log_memory, proc_log_csr_mmode,
     proc_log_csr_hmode, proc_log_csr_smode, proc_log_csr_umode,
     proc_log_int_reg, proc_log_no_pseudo}

-----------------------------------------------------------------------------
(* Union layouts.  A member is the sequence of its struct's fields in      *)
(* declaration order; a field is <<name, type, count>>.                    *)

Val(t) == [name |-> "val", type |-> t, count |-> 1]

Pad(t, c) == [name |-> "pad", type |-> t, count |-> c]

ireg_rv32_r(bo) ==
    [x  |-> <<Val("s32")>>,
     xu |-> <<Val("u32")>>,
     w  |-> <<Val("s32")>>,
     wu |-> <<Val("u32")>>,
     h  |-> IF bo = "LITTLE_ENDIAN" THEN <<Val("s16"), Pad("s16", 1)>>
                                    ELSE <<Pad("s16", 1), Val("s16")>>,
     hu |-> IF bo = "LITTLE_ENDIAN" THEN <<Val("u16"), Pad("u16", 1)>>
                                    ELSE <<Pad("u16", 1), Val("u16")>>,
     b  |-> IF bo = "LITTLE_ENDIAN" THEN <<Val("s8"), Pad("s8", 3)>>
                                    ELSE <<Pad("s8", 3), Val("s8")>>,
     bu |-> IF bo = "LITTLE_ENDIAN" THEN <<Val("u8"), Pad("u8", 3)>>
                                    ELSE <<Pad("u8", 3), Val("u8")>>]

ireg_rv64_r(bo) ==
    [l  |-> <<Val("s64")>>,
     lu |-> <<Val("u64")>>,
     x  |-> <<Val("s64")>>,
     xu |-> <<Val("u64")>>,
     w  |-> IF bo = "LITTLE_ENDIAN" THEN <<Val("s32"), Pad("s32", 1)>>
                                    ELSE <<Pad("s32", 1), Val("s32")>>,
     wu |-> IF bo = "LITTLE_ENDIAN" THEN <<Val("u32"), Pad("u32", 1)>>
                                    ELSE <<Pad("u32", 1), Val("u32")>>,
     h  |-> IF bo = "LITTLE_ENDIAN" THEN <<Val("s16"), Pad("s16", 3)>>
                                    ELSE <<Pad("s16", 3), Val("s16")>>,
     hu |-> IF bo = "LITTLE_ENDIAN" THEN <<Val("u16"), Pad("u16", 3)>>
                                    ELSE <<Pad("u16", 3), Val("u16")>>,
     b  |-> IF bo = "LITTLE_ENDIAN" THEN <<Val("s8"), Pad("s8", 7)>>
                                    ELSE <<Pad("s8", 7), Val("s8")>>,
     bu |-> IF bo = "LITTLE_ENDIAN" THEN <<Val("u8"), Pad("u8", 7)>>
                                    ELSE <<Pad("u8", 7), Val("u8")>>]

freg_fp32_r(bo) ==
    [w  |-> <<Val("s32")>>,
     wu |-> <<Val("u32")>>,
     x  |-> <<Val("s32")>>,
     xu |-> <<Val("u32")>>,
     s  |-> <<Val("f32")>>]

\* Mutant of freg_fp64_r: the view s keeps the little-endian field order in
\* the big-endian branch.
freg_fp64_r_s_unswapped(bo) ==
    [l  |-> <<Val("s64")>>,
     lu |-> <<Val("u64")>>,
     x  |-> <<Val("s64")>>,
     xu |-> <<Val("u64")>>,
     d  |-> <<Val("f64")>>,
     s  |-> <<Val("f32"), Pad("u32", 1)>>,
     w  |-> IF bo = "LITTLE_ENDIAN" THEN <<Val("s32"), Pad("u32", 1)>>
                                    ELSE <<Pad("u32", 1), Val("s32")>>,
     wu |-> IF bo = "LITTLE_ENDIAN" THEN <<Val("u32"), Pad("u32", 1)>>
                                    ELSE <<Pad("u32", 1), Val("u32")>>]

freg_fp64_r(bo) ==
    [l  |-> <<Val("s64")>>,
     lu |-> <<Val("u64")>>,
     x  |-> <<Val("s64")>>,
     xu |-> <<Val("u64")>>,
     d  |-> <<Val("f64")>>,
     s  |-> IF bo = "LITTLE_ENDIAN" THEN <<Val("f32"), Pad("u32", 1)>>
                                    ELSE <<Pad("u32", 1), Val("f32")>>,
     w  |-> IF bo = "LITTLE_ENDIAN" THEN <<Val("s32"), Pad("u32", 1)>>
                                    ELSE <<Pad("u32", 1), Val("s32")>>,
     wu |-> IF bo = "LITTLE_ENDIAN" THEN <<Val("u32"), Pad("u32", 1)>>
                                    ELSE <<Pad("u32", 1), Val("u32")>>]

UnionOf(struct, bo) ==
    CASE struct = "ireg_rv32" -> ireg_rv32_r(bo)
      [] struct = "ireg_rv64" -> ireg_rv64_r(bo)
      [] struct = "freg_fp32" -> freg_fp32_r(bo)
      [] struct = "freg_fp64" -> freg_fp64_r(bo)

Views(struct) == DOMAIN UnionOf(struct, "LITTLE_ENDIAN")

FieldSize(f) == SizeOf(f.type) * f.count

\* sizeof of a member struct: all its fields have the same alignment, so
\* the compiler inserts no padding of its own.
RECURSIVE MemberSize(_)
MemberSize(m) == IF m = <<>> THEN 0 ELSE FieldSize(Head(m)) + MemberSize(Tail(m))

\* Mutant of ValOffset: the value always first, as if the big-endian branch
\* had kept the little-endian field order.
ValOffsetFirst(m) == 0

\* Byte offset of the field val within its member (and so within the union).
RECURSIVE ValOffset(_)
ValOffset(m) ==
    IF Head(m).name = "val" THEN 0 ELSE FieldSize(Head(m)) + ValOffset(Tail(m))

RECURSIVE ValType(_)
ValType(m) == IF Head(m).name = "val" THEN Head(m).type ELSE ValType(Tail(m))

\* sizeof(r): the size of the largest member.
UnionSize(struct, bo) ==
    LET u == UnionOf(struct, bo)
        sizes == {MemberSize(u[v]) : v \in DOMAIN u}
    IN  CHOOSE n \in sizes : \A k \in sizes : k <= n

-----------------------------------------------------------------------------
(* Access to storage in host byte order *)

\* The n bytes at offset off, as a word.
Load(r, off, n, bo) ==
    LET bytes == SubSeq(r, off + 1, off + n)
    IN  IF bo = "LITTLE_ENDIAN" THEN bytes ELSE Reverse(bytes)

\* Storage r with word stored at offset off.
Store(r, off, word, bo) ==
    LET n == Len(word)
        bytes == IF bo = "LITTLE_ENDIAN" THEN word ELSE Reverse(word)
    IN  [k \in 1..Len(r) |->
            IF off < k /\ k <= off + n THEN bytes[k - off] ELSE r[k]]

\* r.<view>.val
ReadView(struct, r, view, bo) ==
    LET m == UnionOf(struct, bo)[view]
    IN  Load(r, ValOffset(m), SizeOf(ValType(m)), bo)

\* Mutant of WriteView: the value is widened to the whole register, as a
\* store through the full-width member would.
WriteViewWidened(struct, r, view, word, bo) ==
    LET m == UnionOf(struct, bo)[view]
    IN  Store(r, 0, Convert(Trunc(word, SizeOf(ValType(m))), IsSigned(ValType(m)), Len(r)), bo)

\* r.<view>.val = word
WriteView(struct, r, view, word, bo) ==
    LET m == UnionOf(struct, bo)[view]
    IN  Store(r, ValOffset(m), Trunc(word, SizeOf(ValType(m))), bo)

\* memset(&r, c, n) on storage of n bytes
Memset(n, c) == [k \in 1..n |-> c]

ireg_rv32(bo) == Memset(UnionSize("ireg_rv32", bo), 0)

ireg_rv64(bo) == Memset(UnionSize("ireg_rv64", bo), 0)

freg_fp32(bo) == Memset(UnionSize("freg_fp32", bo), 0)

freg_fp64(bo) == Memset(UnionSize("freg_fp64", bo), 0)

Construct(struct, bo) ==
    CASE struct = "ireg_rv32" -> ireg_rv32(bo)
      [] struct = "ireg_rv64" -> ireg_rv64(bo)
      [] struct = "freg_fp32" -> freg_fp32(bo)
      [] struct = "freg_fp64" -> freg_fp64(bo)

\* typedef ... ux in each register struct
RegUx(struct) ==
    CASE struct = "ireg_rv32" -> "u32"
      [] struct = "ireg_rv64" -> "u64"
      [] struct = "freg_fp32" -> "u32"
      [] struct = "freg_fp64" -> "u64"

\* enum { xlen = sizeof(ux) << 3 } / enum { flen = sizeof(ux) << 3 }
reg_xlen(struct) == Shl(SizeOf(RegUx(struct)), 3)

-----------------------------------------------------------------------------
(* Processor state *)

processor_rv32imafd ==
    [SX |-> "s32", UX |-> "u32", IREG |-> "ireg_rv32", IREG_COUNT |-> 32,
     FREG |-> "freg_fp64", FREG_COUNT |-> 32]

processor_rv64imafd ==
    [SX |-> "s64", UX |-> "u64", IREG |-> "ireg_rv64", IREG_COUNT |-> 32,
     FREG |-> "freg_fp64", FREG_COUNT |-> 32]

\* Mutant of xlen: the size in bytes, the shift forgotten.
xlen_bytes(cfg) == SizeOf(cfg.UX)

xlen(cfg) == Shl(SizeOf(cfg.UX), 3)

ireg_count(cfg) == cfg.IREG_COUNT

freg_count(cfg) == cfg.FREG_COUNT

\* The scalar data members and their declared types.
Fields ==
    {"pc", "node_id", "hart_id", "log", "lr", "badaddr",
     "time", "cycle", "instret", "fcsr"}

\* Mutant of FieldType: the counters declared with the native width UX.
FieldTypeNativeCounters(cfg, f) ==
    CASE f \in {"pc", "fcsr", "time", "cycle", "instret"} -> cfg.UX
      [] f \in {"node_id", "hart_id"} -> "u16"
      [] f = "log" -> "u32"
      [] f \in {"lr", "badaddr"} -> cfg.SX

FieldType(cfg, f) ==
    CASE f = "pc" -> cfg.UX
      [] f = "node_id" -> "u16"
      [] f = "hart_id" -> "u16"
      [] f = "log" -> "u32"
      [] f = "lr" -> cfg.SX
      [] f = "badaddr" -> cfg.SX
      [] f = "time" -> "u64"
      [] f = "cycle" -> "u64"
      [] f = "instret" -> "u64"
      [] f = "fcsr" -> cfg.UX

\* Mutant of MemInit: every member cleared, the initialiser's value ignored.
MemInitZero(cfg, f, i) == FromInt(0, SizeOf(FieldType(cfg, f)))

\* Member initialiser m(i): the int i converted to the member's type.
MemInit(cfg, f, i) == FromInt(i, SizeOf(FieldType(cfg, f)))

\* processor(): the state of a default-constructed instance.  env is
\* value-initialised and holds no architectural state; it is left out.
processor(cfg, bo) ==
    [pc      |-> MemInit(cfg, "pc", 0),
     ireg    |-> [i \in 0..(ireg_count(cfg) - 1) |-> Construct(cfg.IREG, bo)],
     freg    |-> [i \in 0..(freg_count(cfg) - 1) |-> Construct(cfg.FREG, bo)],
     node_id |-> MemInit(cfg, "node_id", 0),
     hart_id |-> MemInit(cfg, "hart_id", 0),
     log     |-> MemInit(cfg, "log", 0),
     lr      |-> MemInit(cfg, "lr", -1),
     badaddr |-> MemInit(cfg, "badaddr", 0),
     time    |-> MemInit(cfg, "time", 0),
     cycle   |-> MemInit(cfg, "cycle", 0),
     instret |-> MemInit(cfg, "instret", 0),
     fcsr    |-> MemInit(cfg, "fcsr", 0)]

\* The two instances of a run: one of each ready-made configuration.
Harts == {"rv32", "rv64"}

ConfigOf(h) == IF h = "rv32" THEN processor_rv32imafd ELSE processor_rv64imafd

-----------------------------------------------------------------------------
(* Reads the structs offer *)

\* ireg_rv32::operator s32() / ireg_rv64::operator s64(): return r.x.val
operator_sx(struct, r, bo) == ReadView(struct, r, "x", bo)

\* Conversion of an integer of the given type to a pointer of pbytes bytes,
\* as the supported compilers define it: the value is truncated when the
\* pointer is narrower and extended by the signedness of its type otherwise.
ToPointer(word, type, pbytes) == Convert(word, IsSigned(type), pbytes)

\* operator s32*(): reinterpret_cast<s32*>(r.w.val), both variants
operator_s32p(struct, r, bo, pbytes) ==
    LET m == UnionOf(struct, bo)["w"]
    IN  ToPointer(ReadView(struct, r, "w", bo), ValType(m), pbytes)

\* ireg_rv64::operator s64*(): reinterpret_cast<s64*>(r.l.val)
operator_s64p(struct, r, bo, pbytes) ==
    LET m == UnionOf(struct, bo)["l"]
    IN  ToPointer(ReadView(struct, r, "l", bo), ValType(m), pbytes)

\* The pointer conversions each integer register variant offers.
PointerConversions(struct) ==
    IF struct = "ireg_rv32" THEN {"s32*"} ELSE {"s32*", "s64*"}

PointerValue(struct, r, bo, conv, pbytes) ==
    IF conv = "s32*" THEN operator_s32p(struct, r, bo, pbytes)
                     ELSE operator_s64p(struct, r, bo, pbytes)

-----------------------------------------------------------------------------
(* Bitwise operations on bytes and words *)

RECURSIVE ByteOr(_, _)
ByteOr(a, b) ==
    IF a = 0 /\ b = 0 THEN 0
    ELSE (IF a % 2 = 1 \/ b % 2 = 1 THEN 1 ELSE 0) + 2 * ByteOr(a \div 2, b \div 2)

RECURSIVE ByteAnd(_, _)
ByteAnd(a, b) ==
    IF a = 0 \/ b = 0 THEN 0
    ELSE (IF a % 2 = 1 /\ b % 2 = 1 THEN 1 ELSE 0) + 2 * ByteAnd(a \div 2, b \div 2)

WordOr(a, b) == [k \in 1..Len(a) |-> ByteOr(a[k], b[k])]

WordAnd(a, b) == [k \in 1..Len(a) |-> ByteAnd(a[k], b[k])]

\* ~x on an int
IntNot(x) == -x - 1

\* (log & flag) != 0
LogEnabled(log, flag) == WordAnd(log, FromInt(flag, Len(log))) # Zero(Len(log))

-----------------------------------------------------------------------------
(* Inputs of the model: the values and registers the executor writes *)

PatA == <<239, 205, 171, 137, 103, 69, 35, 1>>      \* 0x0123456789ABCDEF

PatB == <<128, 90, 165, 60, 195, 15, 240, 126>>     \* 0x7EF00FC33CA55A80

\* Values of a type of n bytes: all bits set and two patterns whose
\* truncations differ in sign.
Samples(n) == {Ones(n), Trunc(PatA, n), Trunc(PatB, n)}

\* Values written through a view or to a scalar member.
ViewSamples(n) == {Ones(n), Trunc(PatB, n)}

\* 0x80000000 as a value of n bytes
Addr80000000(n) == Convert(<<0, 0, 0, 128>>, FALSE, n)

RegIdx == {5, 31}

\* The record of the last operation: what was written where, and what the
\* written object held before.
NoOp ==
    [op |-> "processor", hart |-> "-", idx |-> -1, view |-> "-", val |-> <<>>,
     old |-> <<>>]

-----------------------------------------------------------------------------
(* The state machine *)

Init ==
    /\ byte_order \in {"LITTLE_ENDIAN", "BIG_ENDIAN"}
    /\ harts = [h \in Harts |-> processor(ConfigOf(h), byte_order)]
    /\ nops = 0
    /\ last = NoOp

\* Mutant of IregAssign: operator= stores through r.w.val.
IregAssignWord(h, i, val) ==
    /\ nops < MaxOps
    /\ harts' = [harts EXCEPT ![h].ireg[i] =
                    WriteView(ConfigOf(h).IREG, @, "w", val, byte_order)]
    /\ nops' = nops + 1
    /\ last' = [op |-> "IregAssign", hart |-> h, idx |-> i, view |-> "x", val |-> val,
                old |-> harts[h].ireg[i]]
    /\ UNCHANGED byte_order

\* ireg[i] = val: operator=(sx val) { r.x.val = val; return *this; }
IregAssign(h, i, val) ==
    /\ nops < MaxOps
    /\ harts' = [harts EXCEPT ![h].ireg[i] =
                    WriteView(ConfigOf(h).IREG, @, "x", val, byte_order)]
    /\ nops' = nops + 1
    /\ last' = [op |-> "IregAssign", hart |-> h, idx |-> i, view |-> "x", val |-> val,
                old |-> harts[h].ireg[i]]
    /\ UNCHANGED byte_order

\* ireg[i].r.<view>.val = val
IregWrite(h, i, view, val) ==
    /\ nops < MaxOps
    /\ harts' = [harts EXCEPT ![h].ireg[i] =
                    WriteView(ConfigOf(h).IREG, @, view, val, byte_order)]
    /\ nops' = nops + 1
    /\ last' = [op |-> "IregWrite", hart |-> h, idx |-> i, view |-> view, val |-> val,
                old |-> harts[h].ireg[i]]
    /\ UNCHANGED byte_order

\* freg[i].r.<view>.val = val (a floating-point value is its bit pattern)
FregWrite(h, i, view, val) ==
    /\ nops < MaxOps
    /\ harts' = [harts EXCEPT ![h].freg[i] =
                    WriteView(ConfigOf(h).FREG, @, view, val, byte_order)]
    /\ nops' = nops + 1
    /\ last' = [op |-> "FregWrite", hart |-> h, idx |-> i, view |-> view, val |-> val,
                old |-> harts[h].freg[i]]
    /\ UNCHANGED byte_order

\* Mutant of WriteField: the member is shared by all instances (static).
WriteFieldStatic(h, f, val) ==
    /\ nops < MaxOps
    /\ harts' = [g \in Harts |->
                    [harts[g] EXCEPT ![f] =
                        Convert(val, FALSE, SizeOf(FieldType(ConfigOf(g), f)))]]
    /\ nops' = nops + 1
    /\ last' = [op |-> "WriteField", hart |-> h, idx |-> -1, view |-> f, val |-> val,
                old |-> harts[h][f]]
    /\ UNCHANGED byte_order

\* <member> = val for a scalar data member
WriteField(h, f, val) ==
    /\ nops < MaxOps
    /\ harts' = [harts EXCEPT ![h][f] = Trunc(val, SizeOf(FieldType(ConfigOf(h), f)))]
    /\ nops' = nops + 1
    /\ last' = [op |-> "WriteField", hart |-> h, idx |-> -1, view |-> f, val |-> val,
                old |-> harts[h][f]]
    /\ UNCHANGED byte_order

\* log |= flag
SetLog(h, flag) ==
    /\ nops < MaxOps
    /\ harts' = [harts EXCEPT ![h].log = WordOr(@, FromInt(flag, Len(@)))]
    /\ nops' = nops + 1
    /\ last' = [op |-> "SetLog", hart |-> h, idx |-> flag, view |-> "log", val |-> <<>>,
                old |-> harts[h].log]
    /\ UNCHANGED byte_order

\* Mutant of ClearLog: log &= flag, the complement forgotten.
ClearLogNoComplement(h, flag) ==
    /\ nops < MaxOps
    /\ harts' = [harts EXCEPT ![h].log = WordAnd(@, FromInt(flag, Len(@)))]
    /\ nops' = nops + 1
    /\ last' = [op |-> "ClearLog", hart |-> h, idx |-> flag, view |-> "log", val |-> <<>>,
                old |-> harts[h].log]
    /\ UNCHANGED byte_order

\* log &= ~flag
ClearLog(h, flag) ==
    /\ nops < MaxOps
    /\ harts' = [harts EXCEPT ![h].log = WordAnd(@, FromInt(IntNot(flag), Len(@)))]
    /\ nops' = nops + 1
    /\ last' = [op |-> "ClearLog", hart |-> h, idx |-> flag, view |-> "log", val |-> <<>>,
                old |-> harts[h].log]
    /\ UNCHANGED byte_order

ViewSize(struct, view) == SizeOf(ValType(UnionOf(struct, "LITTLE_ENDIAN")[view]))

FieldSamples(h, f) ==
    LET n == SizeOf(FieldType(ConfigOf(h), f))
    IN  IF f = "pc" THEN {Addr80000000(n), Ones(n)} ELSE ViewSamples(n)

\* Writes to integer registers.
NextIreg ==
    \E h \in Harts, i \in RegIdx :
        \/ \E val \in Samples(SizeOf(ConfigOf(h).SX)) : IregAssign(h, i, val)
        \/ \E view \in Views(ConfigOf(h).IREG) :
              \E val \in ViewSamples(ViewSize(ConfigOf(h).IREG, view)) :
                  IregWrite(h, i, view, val)

\* Writes to floating-point registers.
NextFreg ==
    \E h \in Harts, i \in RegIdx :
        \E view \in Views(ConfigOf(h).FREG) :
            \E val \in ViewSamples(ViewSize(ConfigOf(h).FREG, view)) :
                FregWrite(h, i, view, val)

\* Writes to the scalar members.
NextFields ==
    \E h \in Harts :
        \/ \E f \in Fields : \E val \in FieldSamples(h, f) : WriteField(h, f, val)
        \/ \E flag \in proc_log_flags : SetLog(h, flag)
        \/ \E flag \in proc_log_flags : ClearLog(h, flag)

\* Any kind of write an executor performs, on either instance: one register
\* of each file, every view and every scalar member, one value each.
Next ==
    \E h \in Harts :
        \/ IregAssign(h, 5, Ones(SizeOf(ConfigOf(h).SX)))
        \/ \E view \in Views(ConfigOf(h).IREG) :
              IregWrite(h, 5, view, Trunc(PatB, ViewSize(ConfigOf(h).IREG, view)))
        \/ \E view \in Views(ConfigOf(h).FREG) :
              FregWrite(h, 5, view, Trunc(PatA, ViewSize(ConfigOf(h).FREG, view)))
        \/ \E f \in Fields :
              WriteField(h, f, Trunc(PatB, SizeOf(FieldType(ConfigOf(h), f))))
        \/ \E flag \in {proc_log_inst, proc_log_no_pseudo} : SetLog(h, flag)
        \/ \E flag \in {proc_log_inst, proc_log_no_pseudo} : ClearLog(h, flag)

Spec == Init /\ [][Next]_vars

SpecIreg == Init /\ [][NextIreg]_vars

SpecFreg == Init /\ [][NextFreg]_vars

SpecFields == Init /\ [][NextFields]_vars

-----------------------------------------------------------------------------
(* Vocabulary of the properties *)

\* Views as wide as the register, and the narrower ones.
FullViews(struct) ==
    LET n == UnionSize(struct, "LITTLE_ENDIAN")
    IN  {v \in Views(struct) : ViewSize(struct, v) = n}

NarrowViews(struct) == Views(struct) \ FullViews(struct)

Counters == {"time", "cycle", "instret"}

\* Pointer widths of the hosts the header is built for.
HostPointerBytes == {4, 8}

\* The register the last operation wrote.
LastIreg == harts[last.hart].ireg[last.idx]

LastFullWrite ==
    \/ last.op = "IregAssign"
    \/ last.op = "IregWrite" /\ last.view \in FullViews(ConfigOf(last.hart).IREG)

LastNarrowWrite ==
    last.op = "IregWrite" /\ last.view \in NarrowViews(ConfigOf(last.hart).IREG)

-----------------------------------------------------------------------------
(* C1: after a value v is written through a full-width view of an integer  *)
(* register (x, xu, the other full-width aliases, or operator=), every     *)
(* narrow view of that register reads the truncation of v to the view's    *)
(* width, under both byte orders; the unsigned 8-bit view of -1 reads 255  *)
(* and the signed one reads -1.                                            *)
C1_NarrowReadsTruncate ==
    LastFullWrite =>
        LET struct == ConfigOf(last.hart).IREG
        IN  \A nv \in NarrowViews(struct) :
                LET got == ReadView(struct, LastIreg, nv, byte_order)
                    k == ViewSize(struct, nv)
                IN  /\ got = Trunc(last.val, k)
                    /\ k = 1 => ToNat(got) = last.val[1]
                    /\ k = 2 => ToNat(got) = last.val[1] + 256 * last.val[2]
                    /\ (k = 1 /\ last.val = FromInt(-1, Len(last.val))) =>
                           /\ nv = "bu" => ToNat(got) = 255
                           /\ nv = "b" => ToInt(got) = -1

\* rv64 register = -1 on a big-endian host: bu reads 255, wu reads 2^32-1.
C1_Witness ==
    /\ LastFullWrite
    /\ last.hart = "rv64"
    /\ byte_order = "BIG_ENDIAN"
    /\ last.val = FromInt(-1, 8)
    /\ ToNat(ReadView("ireg_rv64", LastIreg, "bu", byte_order)) = 255
    /\ ReadView("ireg_rv64", LastIreg, "wu", byte_order) = Ones(4)

(* C2: immediately after default construction every view of every integer  *)
(* and floating-point register reads zero, and every scalar member of both *)
(* configurations is zero except lr, which has all bits set (-1).          *)
C2_DefaultConstruction ==
    last.op = "processor" =>
        /\ \A h \in Harts :
              LET cfg == ConfigOf(h)
                  p == harts[h]
              IN  /\ \A f \in Fields \ {"lr"} : p[f] = Zero(SizeOf(FieldType(cfg, f)))
                  /\ p.lr = Ones(SizeOf(cfg.SX))
                  /\ p.lr = FromInt(-1, xlen(cfg) \div 8)
                  /\ \A i \in DOMAIN p.ireg : \A v \in Views(cfg.IREG) :
                        ReadView(cfg.IREG, p.ireg[i], v, byte_order)
                            = Zero(ViewSize(cfg.IREG, v))
                  /\ \A i \in DOMAIN p.freg : \A v \in Views(cfg.FREG) :
                        ReadView(cfg.FREG, p.freg[i], v, byte_order)
                            = Zero(ViewSize(cfg.FREG, v))
        /\ ToInt(harts["rv32"].lr) = -1
        /\ \A struct \in {"ireg_rv32", "ireg_rv64", "freg_fp32", "freg_fp64"} :
              \A v \in Views(struct) :
                  ReadView(struct, Construct(struct, byte_order), v, byte_order)
                      = Zero(ViewSize(struct, v))

C2_Witness ==
    /\ last.op = "processor"
    /\ nops = 0
    /\ harts["rv64"].lr = Ones(8)
    /\ harts["rv32"].pc = Zero(4)

(* C3: writing a 32-bit pattern through the single-precision view s of a   *)
(* double-precision register puts it in the low-order 32 bits of the       *)
(* 64-bit value, the range the views w and wu occupy, and leaves the       *)
(* other 32 bits as they were, under both byte orders.                     *)
C3_SingleWriteKeepsHighBits ==
    (last.op = "FregWrite" /\ last.view = "s") =>
        LET struct == ConfigOf(last.hart).FREG
            u == UnionOf(struct, byte_order)
            new == harts[last.hart].freg[last.idx]
        IN  /\ ValOffset(u["s"]) = ValOffset(u["w"])
            /\ ValOffset(u["s"]) = ValOffset(u["wu"])
            /\ \A fv \in {"xu", "lu", "x", "l"} :
                  /\ Trunc(ReadView(struct, new, fv, byte_order), 4) = last.val
                  /\ High(ReadView(struct, new, fv, byte_order), 4)
                        = High(ReadView(struct, last.old, fv, byte_order), 4)
            /\ ReadView(struct, new, "w", byte_order) = last.val
            /\ ReadView(struct, new, "wu", byte_order) = last.val

\* s written over a register whose upper half is not zero, big-endian host.
C3_Witness ==
    /\ last.op = "FregWrite"
    /\ last.view = "s"
    /\ byte_order = "BIG_ENDIAN"
    /\ LET r == harts[last.hart].freg[last.idx]
           full == ReadView("freg_fp64", r, "xu", byte_order)
       IN  /\ High(full, 4) = High(PatB, 4)
           /\ Trunc(full, 4) = Ones(4)

C4_IndependentStep ==
    \A g \in Harts : g # last'.hart => harts'[g] = harts[g]

(* C4: a write to one instance (program counter, a register through any   *)
(* view, a counter or any other member) leaves every member and register   *)
(* of the other instance unchanged.                                        *)
C4_InstancesIndependent == [][C4_IndependentStep]_vars

\* rv32 was just written while rv64 holds values written earlier.
C4_Witness ==
    /\ last.hart = "rv32"
    /\ last.op = "WriteField"
    /\ last.view = "pc"
    /\ harts["rv32"].pc # Zero(4)
    /\ harts["rv64"].ireg[5] # Zero(8)

(* C5: every pointer conversion of an integer register yields an address   *)
(* that carries the register's full stored bit pattern: on a host whose    *)
(* pointers are at least xlen bits wide, the low xlen bits of the address  *)
(* are the register's bits.                                                *)
C5_PointerIsFullPattern ==
    \A h \in Harts : \A i \in DOMAIN harts[h].ireg :
        LET struct == ConfigOf(h).IREG
            r == harts[h].ireg[i]
            n == Len(r)
        IN  \A conv \in PointerConversions(struct) :
                \A pbytes \in {q \in HostPointerBytes : q >= n} :
                    Trunc(PointerValue(struct, r, byte_order, conv, pbytes), n)
                        = ReadView(struct, r, "xu", byte_order)

(* C6 as stated: time, cycle and instret are 64-bit values that start at   *)
(* 0 and no step makes any of them smaller.                                *)
C6_NoCounterDecreases ==
    [][\A h \in Harts : \A c \in Counters : ~WordLess(harts'[h][c], harts[h][c])]_vars

C6_CounterStep ==
    \A h \in Harts : \A c \in Counters :
        /\ last.op = "processor" => harts[h][c] = Zero(8)
        /\ harts'[h][c] \in [1..8 -> Byte]
        /\ harts'[h][c] # harts[h][c] =>
              /\ last'.op = "WriteField"
              /\ last'.hart = h
              /\ last'.view = c
              /\ harts'[h][c] = last'.val

(* C6 amended: time, cycle and instret are 64-bit values that are 0 at     *)
(* construction; a counter changes only by a direct write to it, and then  *)
(* holds the written value, whether larger or smaller.                     *)
C6_CountersAre64BitAndOnlyWritten == [][C6_CounterStep]_vars

\* A counter of the 32-bit configuration holds a 64-bit value just written.
C6_Witness ==
    /\ last.op = "WriteField"
    /\ last.hart = "rv32"
    /\ last.view = "cycle"
    /\ nops = 2
    /\ harts["rv32"].cycle = Trunc(PatB, 8)
    /\ WordLess(harts["rv32"].cycle, Ones(8))

(* C7: after operator= assigns v, the register read as a native signed     *)
(* value is v, the unsigned full-width view has the same xlen bits, and    *)
(* every view reads bits of v only, whatever the register held before.     *)
C7_AssignThenRead ==
    last.op = "IregAssign" =>
        LET struct == ConfigOf(last.hart).IREG
            cfg == ConfigOf(last.hart)
        IN  /\ Len(last.val) * 8 = xlen(cfg)
            /\ operator_sx(struct, LastIreg, byte_order) = last.val
            /\ ReadView(struct, LastIreg, "xu", byte_order) = last.val
            /\ \A v \in Views(struct) :
                  ReadView(struct, LastIreg, v, byte_order)
                      = Trunc(last.val, ViewSize(struct, v))

\* A second assignment to a register that held another value.
C7_Witness ==
    /\ last.op = "IregAssign"
    /\ nops = 2
    /\ last.hart = "rv64"
    /\ last.val = Trunc(PatA, 8)
    /\ operator_sx("ireg_rv64", LastIreg, byte_order) = Trunc(PatA, 8)
    /\ ReadView("ireg_rv64", last.old, "xu", byte_order) = Ones(8)

(* C8: the derived constants match the declared parameters:                *)
(* processor_rv32imafd has xlen 32 and 32 + 32 registers,                  *)
(* processor_rv64imafd has xlen 64 and 32 + 32 registers, xlen is the xlen *)
(* of the integer register variant used, flen of freg_fp64 is 64, and an   *)
(* instance holds exactly that many registers of that width.               *)
C8_DerivedConstants ==
    /\ xlen(processor_rv32imafd) = 32
    /\ ireg_count(processor_rv32imafd) = 32
    /\ freg_count(processor_rv32imafd) = 32
    /\ xlen(processor_rv64imafd) = 64
    /\ ireg_count(processor_rv64imafd) = 32
    /\ freg_count(processor_rv64imafd) = 32
    /\ reg_xlen("ireg_rv32") = 32
    /\ reg_xlen("ireg_rv64") = 64
    /\ reg_xlen("freg_fp64") = 64
    /\ \A h \in Harts :
          LET cfg == ConfigOf(h)
          IN  /\ xlen(cfg) = reg_xlen(cfg.IREG)
              /\ DOMAIN harts[h].ireg = 0..(ireg_count(cfg) - 1)
              /\ DOMAIN harts[h].freg = 0..(freg_count(cfg) - 1)
              /\ Cardinality(DOMAIN harts[h].ireg) = 32
              /\ Cardinality(DOMAIN harts[h].freg) = 32
              /\ Len(harts[h].pc) * 8 = xlen(cfg)
              /\ \A i \in DOMAIN harts[h].ireg : Len(harts[h].ireg[i]) * 8 = xlen(cfg)
              /\ \A i \in DOMAIN harts[h].freg :
                    Len(harts[h].freg[i]) * 8 = reg_xlen(cfg.FREG)

C8_Witness ==
    /\ nops = MaxOps
    /\ Len(harts["rv32"].ireg[31]) = 4
    /\ Len(harts["rv64"].ireg[31]) = 8
    /\ Len(harts["rv32"].freg[31]) = 8

(* C9: the nine logging flags are the nine distinct single bits 0 to 8,    *)
(* all inside the 32-bit member log; setting or clearing one flag in log   *)
(* enables or disables it and leaves every other flag as it was.           *)
C9_FlagsIndependent ==
    /\ Cardinality(proc_log_flags) = 9
    /\ proc_log_flags = {2 ^ k : k \in 0..8}
    /\ \A h \in Harts :
          /\ Len(harts[h].log) * 8 = 32
          /\ \A f \in proc_log_flags : ToNat(FromInt(f, Len(harts[h].log))) = f
    /\ last.op \in {"SetLog", "ClearLog"} =>
          /\ LogEnabled(harts[last.hart].log, last.idx) <=> last.op = "SetLog"
          /\ \A g \in proc_log_flags \ {last.idx} :
                LogEnabled(harts[last.hart].log, g) <=> LogEnabled(last.old, g)

\* A flag cleared while the other eight stay enabled.
C9_Witness ==
    /\ last.op = "ClearLog"
    /\ last.idx = proc_log_csr_hmode
    /\ \A g \in proc_log_flags :
          LogEnabled(harts[last.hart].log, g) <=> g # proc_log_csr_hmode

(* C10: a write of k bits through a narrow view of an integer register     *)
(* replaces the low-order k bits of the full-width value and leaves the    *)
(* upper xlen-k bits unchanged, under both byte orders; the byte at offset *)
(* 0 is the least-significant byte on a little-endian host and the         *)
(* most-significant byte on a big-endian host.                             *)
C10_NarrowWriteKeepsUpperBits ==
    /\ \A h \in Harts : \A i \in RegIdx :
          LET r == harts[h].ireg[i]
              full == ReadView(ConfigOf(h).IREG, r, "xu", byte_order)
          IN  r[1] = IF byte_order = "LITTLE_ENDIAN" THEN full[1] ELSE full[Len(full)]
    /\ LastNarrowWrite =>
          LET struct == ConfigOf(last.hart).IREG
              k == ViewSize(struct, last.view)
          IN  \A fv \in FullViews(struct) :
                  /\ Trunc(ReadView(struct, LastIreg, fv, byte_order), k) = last.val
                  /\ High(ReadView(struct, LastIreg, fv, byte_order), k)
                        = High(ReadView(struct, last.old, fv, byte_order), k)

\* An 8-bit write over a register holding -1, big-endian host.
C10_Witness ==
    /\ LastNarrowWrite
    /\ last.view = "b"
    /\ last.hart = "rv64"
    /\ byte_order = "BIG_ENDIAN"
    /\ ReadView("ireg_rv64", LastIreg, "xu", byte_order) = <<128>> \o Ones(7)

====
